---- MODULE Spec2Model ----
(***************************************************************************)
(* The OTP-gated submission workflow of the department submission section: *)
(* the three forms (project, research, journal), their subentity lists,    *)
(* the payload each form builds, and the proxy routes the payload is       *)
(* posted to.                                                              *)
(*                                                                         *)
(* Strings are sequences of one-character strings, so that trim(), the     *)
(* `x || undefined` idiom and Number(x) are computed, not assumed.         *)
(* A JavaScript value that can be a string, a number or undefined is a     *)
(* record [t, s, n] with t its type tag.                                   *)
(*                                                                         *)
(* The tabs of DepartmentSubmissionSection mount one form at a time; `tab` *)
(* is the mounted form and the other variables are that form's state.      *)
(*                                                                         *)
(* A handler is taken to be invocable whenever the part of its control's   *)
(* `disabled` attribute that the handler does not re-check itself allows   *)
(* it: onSubmit re-checks the verification, so Submit is only held back by *)
(* isSubmitting; handleRequestOtp re-checks name and email, so it is only  *)
(* held back by otp.loading; handleVerifyOtp re-checks the code, so it is  *)
(* held back by otp.verifying and otp.status # "sent".                     *)
(*                                                                         *)
(* Two specifications explore the machine.  Spec starts where the section  *)
(* mounts and follows the verification and submission workflow; of the     *)
(* draft it edits the fields the workflow reads (the required ones, the    *)
(* submitter's name and email among them).  SpecDraft starts from a form   *)
(* whose required fields are completed and whose email is verified, a      *)
(* state Spec reaches, and edits every field and the subentity list        *)
(* before it submits.  SpecDraftLive is SpecDraft with every issued fetch  *)
(* coming to an end.  SpecProxy runs POST of a proxy route statement by    *)
(* statement, for requests of any body; the forms see a route through      *)
(* ProxyPOST.                                                              *)
(***************************************************************************)
EXTENDS Integers, Sequences, FiniteSets, TLC

VARIABLES
    tab,          \* the mounted form: "project", "research" or "journal"
    values,       \* react-hook-form values: scalar field name -> string
    rows,         \* the field array (authors / members / participants)
    errors,       \* field errors the last step's handleSubmit reported
    isSubmitting, \* formState.isSubmitting
    otp,          \* the useSubmissionOtp session: [status, sessionId, error]
    otpCode,      \* the OTP-code input (useState)
    toast,        \* description of the toast the last step raised ("": none)
    inflight,     \* OTP backend calls issued and not yet answered
    posts,        \* submissions posted to a proxy route and not yet answered
    route         \* a proxy route handling one request: where POST is and
                  \* what it has received, forwarded and answered

vars ==
    <<tab, values, rows, errors, isSubmitting, otp, otpCode, toast, inflight, posts,
      route>>

(***************************************************************************)
(* Bounds of the exploration.                                              *)
(***************************************************************************)
\* Single-field edits explored around the default and the completed draft.
MaxDeviation == 1
\* Longest subentity list explored (append itself has no upper bound).
MaxRows == 3
\* Most network calls in flight at once.
MaxInFlight == 2

(***************************************************************************)
(* Strings.                                                                *)
(***************************************************************************)
Empty == <<>>
S(c) == <<c>>

IsSpace(c) == c = " "

RECURSIVE TrimStart(_)
TrimStart(s) ==
    IF s # <<>> /\ IsSpace(Head(s)) THEN TrimStart(Tail(s)) ELSE s

RECURSIVE TrimEnd(_)
TrimEnd(s) ==
    IF s # <<>> /\ IsSpace(s[Len(s)]) THEN TrimEnd(SubSeq(s, 1, Len(s) - 1)) ELSE s

\* String.prototype.trim
Trim(s) == TrimEnd(TrimStart(s))

\* JavaScript truthiness of a string: the empty string is falsy.
Truthy(s) == s # <<>>

(***************************************************************************)
(* JavaScript values of a payload entry.                                   *)
(***************************************************************************)
Undefined == [t |-> "undefined", s |-> <<>>, n |-> 0]
Str(s) == [t |-> "string", s |-> s, n |-> 0]
Num(n) == [t |-> "number", s |-> <<>>, n |-> n]
NaN == [t |-> "nan", s |-> <<>>, n |-> 0]

\* x.trim()
Trimmed(s) == Str(Trim(s))

\* a faulty normalisation, which keeps the empty string (C26 depends on the
\* omission)
OrUndefinedKept(s) == Str(s)

\* x || undefined, for a string x
OrUndefined(s) == IF Truthy(s) THEN Str(s) ELSE Undefined

Digits == <<"0", "1", "2", "3", "4", "5", "6", "7", "8", "9">>
IsDigit(c) == \E d \in 1..Len(Digits) : Digits[d] = c
DigitVal(c) == (CHOOSE d \in 1..Len(Digits) : Digits[d] = c) - 1

RECURSIVE Decimal(_)
Decimal(s) ==
    IF s = <<>> THEN 0 ELSE 10 * Decimal(SubSeq(s, 1, Len(s) - 1)) + DigitVal(s[Len(s)])

\* Number(x) for a string x: white space is stripped, the empty string is 0,
\* a digit string is its value, anything else is NaN.
ToNumber(s) ==
    LET t == Trim(s) IN
    IF t = <<>> THEN Num(0)
    ELSE IF \A i \in 1..Len(t) : IsDigit(t[i]) THEN Num(Decimal(t))
    ELSE NaN

\* a faulty omission, which keeps what Number made (C11 depends on the
\* omission)
NaNKept(v) == v

\* Number.isNaN(n) ? undefined : n
NaNToUndefined(v) == IF v.t = "nan" THEN Undefined ELSE v

\* JSON.stringify of an object: entries whose value is undefined are left out.
Stringify(obj) == [k \in {x \in DOMAIN obj : obj[x].t # "undefined"} |-> obj[k]]

(***************************************************************************)
(* The three forms: fields, defaults and validation rules.                 *)
(***************************************************************************)
Forms == {"project", "research", "journal"}

\* department.uuid, supplied by the page (DepartmentSubmissionSection).
DepartmentUuid == S("dept-1")

JournalDefaults ==
    [title |-> Empty, genre |-> Empty, abstract |-> Empty, keywords |-> Empty,
     discipline |-> Empty, year |-> Empty, volume |-> Empty, number |-> Empty,
     pages |-> Empty, submittedByName |-> Empty, submittedByEmail |-> Empty]

JournalDefaultAuthor ==
    [givenName |-> Empty, familyName |-> Empty, email |-> Empty,
     affiliation |-> Empty, country |-> Empty]

ProjectDefaults ==
    [title |-> Empty, abstract |-> Empty, description |-> Empty,
     projectType |-> S("final_year"), supervisorName |-> Empty,
     supervisorEmail |-> Empty, startDate |-> Empty, endDate |-> Empty,
     academicYear |-> Empty, githubUrl |-> Empty, demoUrl |-> Empty,
     technologiesUsed |-> Empty, submittedByName |-> Empty,
     submittedByEmail |-> Empty]

ProjectDefaultMember ==
    [fullName |-> Empty, rollNumber |-> Empty, email |-> Empty,
     role |-> <<"Team Member">>]

ResearchDefaults ==
    [title |-> Empty, abstract |-> Empty, description |-> Empty,
     researchType |-> S("applied"), status |-> S("proposed"),
     principalInvestigator |-> Empty, piEmail |-> Empty, startDate |-> Empty,
     endDate |-> Empty, fundingAgency |-> Empty, fundingAmount |-> Empty,
     keywords |-> Empty, methodology |-> Empty, expectedOutcomes |-> Empty,
     publicationsUrl |-> Empty, projectUrl |-> Empty, githubUrl |-> Empty,
     submittedByName |-> Empty, submittedByEmail |-> Empty]

ResearchDefaultParticipant ==
    [fullName |-> Empty, participantType |-> S("student"), email |-> Empty,
     role |-> <<"Researcher">>]

\* defaultValues without the field array
DefaultValues(f) ==
    CASE f = "journal" -> JournalDefaults
      [] f = "project" -> ProjectDefaults
      [] f = "research" -> ResearchDefaults

\* the record append() inserts, which is also the single row of defaultValues
DefaultRow(f) ==
    CASE f = "journal" -> JournalDefaultAuthor
      [] f = "project" -> ProjectDefaultMember
      [] f = "research" -> ResearchDefaultParticipant

DefaultRows(f) == <<DefaultRow(f)>>

\* scalar fields registered with { required: ... }
RequiredFields(f) ==
    CASE f = "journal" ->
           {"title", "genre", "abstract", "submittedByName", "submittedByEmail"}
      [] f = "project" ->
           {"title", "supervisorName", "submittedByName", "submittedByEmail"}
      [] f = "research" ->
           {"title", "principalInvestigator", "piEmail", "submittedByName",
            "submittedByEmail"}

\* sub-fields of row i (1-based) registered with { required: ... }
RequiredRowFields(f, i) ==
    CASE f = "journal" -> {"givenName"}
      [] f = "project" -> IF i = 1 THEN {"fullName", "rollNumber"} ELSE {}
      [] f = "research" -> {}

\* fields rendered as a Select, a date input or a number input
SelectFields(f) ==
    CASE f = "journal" -> {}
      [] f = "project" -> {"projectType"}
      [] f = "research" -> {"researchType", "status"}

DateFields(f) == IF f = "journal" THEN {} ELSE {"startDate", "endDate"}

NumberFields(f) ==
    CASE f = "journal" -> {"year", "volume", "number"}
      [] f = "project" -> {}
      [] f = "research" -> {"fundingAmount"}

SelectRowFields(f) == IF f = "research" THEN {"participantType"} ELSE {}

\* a faulty `required` rule, which no value fails (C19 depends on the rule)
FailsRequiredNever(s) == FALSE

\* react-hook-form's `required` rule: only the empty string fails it.
FailsRequired(s) == s = Empty

\* the field paths handleSubmit reports an error for: <<0, k>> is the scalar
\* field k, <<i, k>> the sub-field k of row i
ValidationErrors(f, v, r) ==
    {<<0, k>> : k \in {x \in RequiredFields(f) : FailsRequired(v[x])}}
    \cup {p \in (1..Len(r)) \X {"givenName", "fullName", "rollNumber"} :
            /\ p[2] \in RequiredRowFields(f, p[1])
            /\ FailsRequired(r[p[1]][p[2]])}

(***************************************************************************)
(* Payloads: what onSubmit builds from the values, per form.               *)
(***************************************************************************)
JournalAuthor(author) ==
    [given_name |-> Trimmed(author.givenName),
     family_name |-> OrUndefined(Trim(author.familyName)),
     email |-> OrUndefined(Trim(author.email)),
     affiliation |-> OrUndefined(Trim(author.affiliation)),
     country |-> OrUndefined(Trim(author.country))]

JournalAuthorKept(author) == Truthy(author.given_name.s)

JournalAuthors(r) ==
    SelectSeq([i \in 1..Len(r) |-> JournalAuthor(r[i])], JournalAuthorKept)

JournalPayload(v, r, submittedEmail, sessionId) ==
    [fields |->
       [title |-> Trimmed(v.title),
        genre |-> Trimmed(v.genre),
        abstract |-> Trimmed(v.abstract),
        keywords |-> OrUndefined(Trim(v.keywords)),
        discipline |-> OrUndefined(Trim(v.discipline)),
        year |-> NaNToUndefined(ToNumber(v.year)),
        volume |-> NaNToUndefined(ToNumber(v.volume)),
        number |-> NaNToUndefined(ToNumber(v.number)),
        pages |-> OrUndefined(Trim(v.pages)),
        submitted_by_name |-> Trimmed(v.submittedByName),
        submitted_by_email |-> Trimmed(submittedEmail),
        department |-> Str(DepartmentUuid),
        otp_session |-> sessionId],
     subs |-> JournalAuthors(r)]

ProjectMember(member) ==
    [full_name |-> Trimmed(member.fullName),
     roll_number |-> Trimmed(member.rollNumber),
     email |-> OrUndefined(Trim(member.email)),
     role |-> OrUndefined(Trim(member.role))]

\* a faulty filter, which keeps a member that has a name (C28 depends on
\* both fields being asked for)
ProjectMemberKeptByName(member) == Truthy(member.full_name.s)

ProjectMemberKept(member) ==
    Truthy(member.full_name.s) /\ Truthy(member.roll_number.s)

ProjectMembers(r) ==
    SelectSeq([i \in 1..Len(r) |-> ProjectMember(r[i])], ProjectMemberKept)

ProjectPayload(v, r, submittedEmail, sessionId) ==
    [fields |->
       [title |-> Trimmed(v.title),
        abstract |-> Trimmed(v.abstract),
        description |-> Trimmed(v.description),
        project_type |-> Str(v.projectType),
        supervisor_name |-> Trimmed(v.supervisorName),
        supervisor_email |-> OrUndefined(Trim(v.supervisorEmail)),
        start_date |-> OrUndefined(v.startDate),
        end_date |-> OrUndefined(v.endDate),
        academic_year |-> OrUndefined(Trim(v.academicYear)),
        github_url |-> OrUndefined(Trim(v.githubUrl)),
        demo_url |-> OrUndefined(Trim(v.demoUrl)),
        technologies_used |-> OrUndefined(Trim(v.technologiesUsed)),
        submitted_by_name |-> Trimmed(v.submittedByName),
        submitted_by_email |-> Trimmed(submittedEmail),
        department |-> Str(DepartmentUuid),
        otp_session |-> sessionId],
     subs |-> ProjectMembers(r)]

ResearchParticipant(participant) ==
    [full_name |-> Trimmed(participant.fullName),
     participant_type |-> Str(participant.participantType),
     email |-> OrUndefined(Trim(participant.email)),
     role |-> OrUndefined(Trim(participant.role)),
     department |-> Str(DepartmentUuid)]

ResearchParticipantKept(participant) == Truthy(participant.full_name.s)

ResearchParticipants(r) ==
    SelectSeq([i \in 1..Len(r) |-> ResearchParticipant(r[i])], ResearchParticipantKept)

ResearchPayload(v, r, submittedEmail, sessionId) ==
    [fields |->
       [title |-> Trimmed(v.title),
        abstract |-> Trimmed(v.abstract),
        description |-> Trimmed(v.description),
        research_type |-> Str(v.researchType),
        status |-> Str(v.status),
        principal_investigator |-> Trimmed(v.principalInvestigator),
        pi_email |-> Trimmed(v.piEmail),
        start_date |-> OrUndefined(v.startDate),
        end_date |-> OrUndefined(v.endDate),
        funding_agency |-> OrUndefined(Trim(v.fundingAgency)),
        funding_amount |-> NaNToUndefined(ToNumber(v.fundingAmount)),
        keywords |-> OrUndefined(Trim(v.keywords)),
        methodology |-> OrUndefined(Trim(v.methodology)),
        expected_outcomes |-> OrUndefined(Trim(v.expectedOutcomes)),
        publications_url |-> OrUndefined(Trim(v.publicationsUrl)),
        project_url |-> OrUndefined(Trim(v.projectUrl)),
        github_url |-> OrUndefined(Trim(v.githubUrl)),
        submitted_by_name |-> Trimmed(v.submittedByName),
        submitted_by_email |-> Trimmed(submittedEmail),
        department |-> Str(DepartmentUuid),
        otp_session |-> sessionId],
     subs |-> ResearchParticipants(r)]

\* the key of the payload that each scalar field of a draft is sent under
PayloadKey ==
    [title |-> "title", genre |-> "genre", abstract |-> "abstract",
     keywords |-> "keywords", discipline |-> "discipline", year |-> "year",
     volume |-> "volume", number |-> "number", pages |-> "pages",
     submittedByName |-> "submitted_by_name",
     submittedByEmail |-> "submitted_by_email",
     description |-> "description", projectType |-> "project_type",
     supervisorName |-> "supervisor_name", supervisorEmail |-> "supervisor_email",
     startDate |-> "start_date", endDate |-> "end_date",
     academicYear |-> "academic_year", githubUrl |-> "github_url",
     demoUrl |-> "demo_url", technologiesUsed |-> "technologies_used",
     researchType |-> "research_type", status |-> "status",
     principalInvestigator |-> "principal_investigator", piEmail |-> "pi_email",
     fundingAgency |-> "funding_agency", fundingAmount |-> "funding_amount",
     methodology |-> "methodology", expectedOutcomes |-> "expected_outcomes",
     publicationsUrl |-> "publications_url", projectUrl |-> "project_url"]

Payload(f, v, r, submittedEmail, sessionId) ==
    CASE f = "journal" -> JournalPayload(v, r, submittedEmail, sessionId)
      [] f = "project" -> ProjectPayload(v, r, submittedEmail, sessionId)
      [] f = "research" -> ResearchPayload(v, r, submittedEmail, sessionId)

\* JSON.stringify(payload): the body of the request
JsonBody(payload) ==
    [fields |-> Stringify(payload.fields),
     subs |-> [i \in 1..Len(payload.subs) |-> Stringify(payload.subs[i])]]

\* the "Add at least one ..." guard: the journal and project forms have it,
\* the research form does not
SubsGuard(f) == f \in {"journal", "project"}

SubsToast(f) ==
    IF f = "journal" THEN "Add at least one author" ELSE "Add at least one team member"

VerifyFirstToast == "Verify your campus email before submitting"

SubmittedToast(f) ==
    CASE f = "journal" -> "Journal article submitted"
      [] f = "project" -> "Project submitted for review"
      [] f = "research" -> "Research submitted for departmental review"

SubmitFallback(f) ==
    CASE f = "journal" -> "Failed to submit article"
      [] f = "project" -> "Failed to submit project"
      [] f = "research" -> "Failed to submit research"

ProxyPath(f) ==
    CASE f = "journal" -> "/api/submissions/journal"
      [] f = "project" -> "/api/submissions/project"
      [] f = "research" -> "/api/submissions/research"

(***************************************************************************)
(* useSubmissionOtp: the OTP session of a form.  The hook's own file is    *)
(* not among the sources; it is modelled from the specification (4.1, 3,   *)
(* 5): idle -> sending -> sent | error, sent -> verifying -> verified |    *)
(* error, reset() back to idle, sessionId present only when verified,      *)
(* error present only in status error, and the result of a call that a     *)
(* reset() has overtaken is discarded.  The object the hook returns is     *)
(* taken to be stable between renders, so that the forms' effect on        *)
(* [submittedEmail, otp] runs when the email changes.                      *)
(***************************************************************************)
OtpIdle == [status |-> "idle", sessionId |-> Undefined, error |-> Undefined]

\* otp.loading and otp.verifying
OtpLoading(o) == o.status = "sending"
OtpVerifying(o) == o.status = "verifying"

\* otp.reset()
OtpReset(o) == OtpIdle

\* a faulty requestOtp, which accepts every argument (C17 depends on the
\* rejection)
OtpRequestAcceptsAll(email, fullName) == FALSE

\* requestOtp rejects arguments that are empty after trimming
OtpRequestInvalid(email, fullName) == email = Empty \/ fullName = Empty

\* verifyOtp rejects an empty code
OtpVerifyInvalid(code) == code = Empty

OtpValidationMessage == "Name and email are required"
OtpCodeMessage == "Enter the verification code"
OtpRequestFallback == "Unable to send verification code"
OtpVerifyFallback == "Unable to verify the code"

\* a faulty requestOtp, which keeps the sessionId of a verified session (C4
\* depends on the clearing)
OtpSendingKeepsSession(o) == [o EXCEPT !.status = "sending"]

\* requestOtp, before the network call
OtpSending(o) == [status |-> "sending", sessionId |-> Undefined, error |-> Undefined]

\* verifyOtp, before the network call
OtpVerifyingState(o) ==
    [status |-> "verifying", sessionId |-> Undefined, error |-> Undefined]

\* the message of a failed backend call: the backend's, or the fallback
OtpFailureMessage(msg, fallback) == IF msg # "" THEN msg ELSE fallback

\* a faulty requestOtp, which drops the message of a failure (C16 depends on
\* the message)
OtpRequestedSilent(o, ok, msg) ==
    [status |-> IF ok THEN "sent" ELSE "error", sessionId |-> Undefined,
     error |-> Undefined]

\* requestOtp, after the backend answered
OtpRequested(o, ok, msg) ==
    IF ok THEN [status |-> "sent", sessionId |-> Undefined, error |-> Undefined]
    ELSE [status |-> "error", sessionId |-> Undefined,
          error |-> Str(S(OtpFailureMessage(msg, OtpRequestFallback)))]

\* a faulty verifyOtp, which stores an identifier of its own instead of the
\* backend's (C25 depends on the stored one)
OtpVerifiedOwnId(o, ok, sessionId, msg) ==
    IF ok THEN [status |-> "verified", sessionId |-> Str(<<"sess">>), error |-> Undefined]
    ELSE [status |-> "error", sessionId |-> Undefined,
          error |-> Str(S(OtpFailureMessage(msg, OtpVerifyFallback)))]

\* verifyOtp, after the backend answered
OtpVerified(o, ok, sessionId, msg) ==
    IF ok THEN [status |-> "verified", sessionId |-> Str(sessionId), error |-> Undefined]
    ELSE [status |-> "error", sessionId |-> Undefined,
          error |-> Str(S(OtpFailureMessage(msg, OtpVerifyFallback)))]

\* The OTP backend: the session identifier it issues for a verified email.
\* The token is opaque; the model keeps the email in it so that a payload
\* shows which address its session was obtained for.
SessionFor(email) == <<"sess">> \o email

\* the messages a failing backend may send ("" is no message)
BackendMessages == {"", "Too many attempts"}

\* the answers of the backend: an acceptance, or a failure with a message or
\* with none
BackendAnswers ==
    {[ok |-> TRUE, msg |-> ""]} \cup {[ok |-> FALSE, msg |-> m] : m \in BackendMessages}

(***************************************************************************)
(* The proxy routes and the upstream API behind them.                      *)
(***************************************************************************)
\* a response body: not JSON at all, or an object with the conventional
\* message fields ("" is an absent field)
EmptyObject == [json |-> TRUE, detail |-> "", error |-> ""]

Bodies ==
    {[json |-> FALSE, detail |-> "", error |-> ""],
     EmptyObject,
     [json |-> TRUE, detail |-> "Duplicate title", error |-> ""],
     [json |-> TRUE, detail |-> "", error |-> "Invalid payload"],
     [json |-> TRUE, detail |-> "Duplicate title", error |-> "Invalid payload"]}

UpstreamStatuses == {200, 204, 400}

\* what the upstream does with a forwarded submission: it cannot be reached,
\* or it answers with a status and a body
Unreachable == [reached |-> FALSE, status |-> 0, body |-> EmptyObject]

\* the bodies an upstream status comes with: an error status with every body,
\* the others with an object and with a body that is not JSON
BodiesOf(st) ==
    IF st >= 400 THEN Bodies ELSE {b \in Bodies : b.detail = "" /\ b.error = ""}

UpstreamOutcomes ==
    {Unreachable}
    \cup UNION {{[reached |-> TRUE, status |-> st, body |-> b] : b \in BodiesOf(st)} :
                 st \in UpstreamStatuses}

\* the outcomes followed while the draft is explored: an acceptance, a
\* rejection with a message, and no answer
DraftOutcomes ==
    {Unreachable,
     [reached |-> TRUE, status |-> 200, body |-> EmptyObject],
     [reached |-> TRUE, status |-> 400,
      body |-> [json |-> TRUE, detail |-> "Duplicate title", error |-> ""]]}

\* the ends a submission can come to: fetch throws before any response, or
\* the route answers for one of the upstream outcomes `ups`
SubmitEnds(ups) ==
    {[thrown |-> TRUE, up |-> Unreachable]}
    \cup {[thrown |-> FALSE, up |-> u] : u \in ups}

\* the error of the project route, whose file is not among the sources: the
\* specification's table of proxy endpoints (6) gives it
ProjectProxyError == "Unable to submit project"

ProxyError(f) ==
    CASE f = "journal" -> "Unable to submit journal article"
      [] f = "research" -> "Unable to submit research"
      [] f = "project" -> ProjectProxyError

\* a faulty catch block, which answers 500 without a body of its own (C32
\* depends on the error field)
RouteErrorResponseBare(f) == [status |-> 500, body |-> EmptyObject]

\* the response of the catch block
RouteErrorResponse(f) ==
    [status |-> 500, body |-> [json |-> TRUE, detail |-> "", error |-> ProxyError(f)]]

\* a status a Response with a body cannot be constructed for
NullBodyStatus(st) == st \in {101, 103, 204, 205, 304}

\* POST of a route, for a request whose body parsed: the upstream's status
\* and JSON body, {} for a body that is not JSON, and 500 with the route's
\* error when anything throws
ProxyPOST(f, up) ==
    IF ~up.reached \/ NullBodyStatus(up.status)
    THEN RouteErrorResponse(f)
    ELSE [status |-> up.status, body |-> IF up.body.json THEN up.body ELSE EmptyObject]

\* The routes whose file is among the sources.
Routes == {"journal", "research"}

\* the bodies a request to a route comes with: one that is not JSON, and
\* JSON payloads
RequestBodies ==
    {[json |-> FALSE, payload |-> "{"],
     [json |-> TRUE, payload |-> "{}"],
     [json |-> TRUE, payload |-> "{title}"],
     [json |-> TRUE, payload |-> "[]"]}

NoRequest == [json |-> FALSE, payload |-> ""]
NoResponse == [status |-> 0, body |-> EmptyObject]

\* no request is being handled
RouteIdle ==
    [pc |-> "idle", f |-> "journal", req |-> NoRequest, forwarded |-> <<>>,
     up |-> Unreachable, thrown |-> "", res |-> NoResponse]

\* a faulty request.json(), which yields a payload for every body (C22
\* depends on its throwing)
RequestParsesAlways(req) == TRUE

\* await request.json() yields a payload; it throws otherwise
RequestParses(req) == req.json

\* response.ok
ResponseOk(st) == st >= 200 /\ st <= 299

\* a faulty extraction, which prefers the error field (C13 depends on the
\* order)
ErrorMessageErrorFirst(f, body) ==
    IF body.json /\ body.error # "" THEN body.error
    ELSE IF body.json /\ body.detail # "" THEN body.detail
    ELSE SubmitFallback(f)

\* data?.detail || data?.error || fallback, with data the parsed body or {}
ErrorMessage(f, body) ==
    LET data == IF body.json THEN body ELSE EmptyObject IN
    IF data.detail # "" THEN data.detail
    ELSE IF data.error # "" THEN data.error
    ELSE SubmitFallback(f)

\* the message of the error fetch throws when no response arrives
NetworkErrorMessage == "Failed to fetch"

(***************************************************************************)
(* Toasts of the OTP handlers.                                             *)
(***************************************************************************)
RequestMissingToast(f) ==
    IF f = "project" THEN "Enter your name and campus email first"
    ELSE "Enter your name and campus email"

RequestSentToast(f) ==
    IF f = "project" THEN "Verification code sent. Check your inbox."
    ELSE "Verification code sent"

VerifyMissingToast(f) ==
    CASE f = "journal" -> "Enter the OTP from your inbox"
      [] f = "project" -> "Enter the OTP from your email"
      [] f = "research" -> "Enter the OTP received in your email"

VerifiedToast(f) ==
    IF f = "project" THEN "Email verified successfully" ELSE "Email verified"

(***************************************************************************)
(* The values a user types, and the part of the drafts that is explored.   *)
(***************************************************************************)
TextValues == {Empty, S(" "), S("a"), <<"a", " ">>}
EmailValues == {Empty, S(" "), S("a"), S("b"), <<"a", " ">>}
\* (the form holds these fields as strings; an untouched number input holds "")
NumberValues == {Empty, S(" "), S("7"), S("x")}
DateValues == {Empty, S("2024-01-01")}
CodeValues == {Empty, S(" "), S("7")}
RowTextValues == {Empty, S(" "), S("a"), S("b")}

FieldValues(f, k) ==
    IF k \in SelectFields(f) THEN {DefaultValues(f)[k]}
    ELSE IF k \in DateFields(f) THEN DateValues
    ELSE IF k \in NumberFields(f) THEN NumberValues
    ELSE IF k = "submittedByEmail" THEN EmailValues
    ELSE TextValues

RowFieldValues(f, k) ==
    IF k \in SelectRowFields(f) THEN {DefaultRow(f)[k]}
    ELSE IF k = "role" THEN {Empty, S(" "), DefaultRow(f)[k]}
    ELSE RowTextValues

\* a required field once the user has completed it
Completed(s) == IF FailsRequired(s) THEN S("a") ELSE s

CompletedValues(f, v) ==
    [k \in DOMAIN v |-> IF k \in RequiredFields(f) THEN Completed(v[k]) ELSE v[k]]

CompletedRows(f, r) ==
    [i \in 1..Len(r) |->
       [k \in DOMAIN r[i] |->
          IF k \in RequiredRowFields(f, i) THEN Completed(r[i][k]) ELSE r[i][k]]]

\* row i of the rows br, rows beyond them being the default row
RowOf(f, br, i) == IF i <= Len(br) THEN br[i] ELSE DefaultRow(f)

\* the number of fields in which the draft (v, r) differs from (bv, br)
Deviation(f, v, r, bv, br) ==
    Cardinality({k \in DOMAIN v : v[k] # bv[k]})
    + Cardinality({p \in (1..Len(r)) \X DOMAIN DefaultRow(f) :
                     r[p[1]][p[2]] # RowOf(f, br, p[1])[p[2]]})

\* the two drafts the exploration is centred on: the default draft, and the
\* default draft with its required fields completed
BaseDrafts ==
    [f \in Forms |->
       <<[values |-> DefaultValues(f), rows |-> DefaultRows(f)],
         [values |-> CompletedValues(f, DefaultValues(f)),
          rows |-> CompletedRows(f, DefaultRows(f))]>>]

BaseValues(f, b) == BaseDrafts[f][b].values

BaseRows(f, b) == BaseDrafts[f][b].rows

\* the deviation of the draft (v, r) from each of the two
Deviations(f, v, r) ==
    [b \in 1..2 |-> Deviation(f, v, r, BaseValues(f, b), BaseRows(f, b))]

\* the drafts explored: within MaxDeviation edits of one of the two
Explored(f, v, r) ==
    \E b \in 1..2 : Deviations(f, v, r)[b] <= MaxDeviation

(***************************************************************************)
(* Pieces of the forms' handlers.                                          *)
(***************************************************************************)
\* !x for a value that is a string or undefined
Falsy(x) == x.t = "undefined" \/ (x.t = "string" /\ x.s = Empty)

\* a faulty guard, which never holds (C1 depends on the guard)
UnverifiedNever(o) == FALSE

\* the guard of onSubmit: otp.status !== "verified" || !otp.sessionId
Unverified(o) == o.status # "verified" \/ Falsy(o.sessionId)

\* a faulty remove, which drops the last row whatever the index (C8 depends
\* on remove)
RemoveLast(r, i) == SubSeq(r, 1, Len(r) - 1)

\* useFieldArray's remove(index)
RemoveAt(r, i) == [j \in 1..(Len(r) - 1) |-> IF j < i THEN r[j] ELSE r[j + 1]]

\* a faulty rendering, which offers Remove on every row (C7 depends on the
\* condition)
RemoveOfferedAlways(r) == TRUE

\* the Remove button is rendered when fields.length > 1
RemoveOffered(r) == Len(r) > 1

\* useFieldArray's append(record) with the record of the Add button
AppendRow(f, r) == Append(r, DefaultRow(f))

\* a faulty reset(), which leaves the calls in flight their say (C3 depends
\* on the discarding)
NotOvertaken(calls) == calls

\* a reset() of the session overtakes the OTP calls in flight
Overtaken(calls) == {[c EXCEPT !.stale = TRUE] : c \in calls}

\* a faulty effect, which clears the code input only (C2 depends on the
\* effect)
EmailEffectKeepsSession(o, code, calls) ==
    [otp |-> o, otpCode |-> Empty, inflight |-> calls]

\* the effect on [submittedEmail, otp]: otp.reset() and setOtpCode("")
EmailEffect(o, code, calls) ==
    [otp |-> OtpReset(o), otpCode |-> Empty, inflight |-> Overtaken(calls)]

\* the form's state that the end of a submission may touch
FormState ==
    [values |-> values, rows |-> rows, otp |-> otp, otpCode |-> otpCode,
     inflight |-> inflight]

\* a faulty success path, which forgets reset(defaultValues) (C5 depends on
\* the path)
SubmitSucceededKeepsDraft(f, st) ==
    [st EXCEPT !.otp = OtpReset(st.otp), !.otpCode = Empty]

\* a faulty failure path, which resets the session (C6 depends on the path)
SubmitFailedResetsSession(f, st) == [st EXCEPT !.otp = OtpReset(st.otp)]

\* a faulty success path, which leaves the session verified (C29 depends on
\* the reset)
SubmitSucceededKeepsSession(f, st) ==
    [values |-> DefaultValues(f), rows |-> DefaultRows(f),
     otp |-> st.otp, otpCode |-> Empty, inflight |-> st.inflight]

\* the success path of onSubmit: reset(defaultValues), otp.reset(),
\* setOtpCode("")
SubmitSucceeded(f, st) ==
    [values |-> DefaultValues(f), rows |-> DefaultRows(f),
     otp |-> OtpReset(st.otp), otpCode |-> Empty,
     inflight |-> Overtaken(st.inflight)]

\* the failure path of onSubmit: a toast, and nothing else
SubmitFailed(f, st) == st

InFlightCount == Cardinality(inflight) + Cardinality(posts)

\* Each call of the hook is a pending promise of its own: two calls with the
\* same arguments are two calls.  A call gets the least number no pending
\* call has.
FreshId == CHOOSE i \in 1..MaxInFlight : \A c \in inflight : c.id # i

\* the `disabled` attribute of the three buttons
RequestDisabled ==
    OtpLoading(otp) \/ ~Truthy(values.submittedByEmail) \/ ~Truthy(values.submittedByName)

\* a faulty verify button, which does not read the status (C31 depends on
\* the status)
VerifyDisabledByCodeOnly == OtpVerifying(otp) \/ ~Truthy(otpCode)

VerifyDisabled == OtpVerifying(otp) \/ otp.status # "sent" \/ ~Truthy(otpCode)

SubmitDisabled == isSubmitting \/ otp.status # "verified"

(***************************************************************************)
(* Initial state: the section mounts the project tab with its defaults.    *)
(***************************************************************************)
DefaultTab == "project"

Init ==
    /\ tab = DefaultTab
    /\ values = DefaultValues(DefaultTab)
    /\ rows = DefaultRows(DefaultTab)
    /\ errors = {}
    /\ isSubmitting = FALSE
    /\ otp = OtpIdle
    /\ otpCode = Empty
    /\ toast = ""
    /\ inflight = {}
    /\ posts = {}
    /\ route = RouteIdle

(***************************************************************************)
(* Actions.                                                                *)
(***************************************************************************)
\* a step that raises no toast and reports no field error
Quiet == toast' = "" /\ errors' = {}

\* a faulty section, whose forms share one OTP session (C24 depends on each
\* form having its own)
SelectTabSharedSession(t) ==
    /\ t # tab
    /\ tab' = t
    /\ values' = DefaultValues(t)
    /\ rows' = DefaultRows(t)
    /\ isSubmitting' = FALSE
    /\ UNCHANGED <<otp, otpCode, inflight>>
    /\ posts' = {}
    /\ Quiet
    /\ UNCHANGED route

\* The user selects another tab: its form mounts with its defaults.  The
\* form that was mounted is gone, and so are the handlers that awaited its
\* calls.
SelectTab(t) ==
    /\ t # tab
    /\ tab' = t
    /\ values' = DefaultValues(t)
    /\ rows' = DefaultRows(t)
    /\ isSubmitting' = FALSE
    /\ otp' = OtpIdle
    /\ otpCode' = Empty
    /\ inflight' = {}
    /\ posts' = {}
    /\ Quiet
    /\ UNCHANGED route

\* a faulty effect, which runs on the edit of any field (C23 depends on the
\* dependency list)
EffectRunsAlways(k) == TRUE

\* the edit of field k re-runs the effect: its dependencies are
\* [submittedEmail, otp], with submittedEmail = watch("submittedByEmail")
EffectRuns(k) == k = "submittedByEmail"

\* The user edits one of the scalar fields `fields`.  A change of
\* submittedByEmail runs the effect that resets the session and clears the
\* code.
SetField(fields) ==
    \E dev \in {Deviations(tab, values, rows)} :
       \E k \in fields : \E s \in FieldValues(tab, k) :
         /\ s # values[k]
         /\ \E b \in 1..2 :
              dev[b] - (IF values[k] # BaseValues(tab, b)[k] THEN 1 ELSE 0)
                     + (IF s # BaseValues(tab, b)[k] THEN 1 ELSE 0) <= MaxDeviation
         /\ values' = [values EXCEPT ![k] = s]
         /\ IF EffectRuns(k)
            THEN LET e == EmailEffect(otp, otpCode, inflight)
                 IN /\ otp' = e.otp
                    /\ otpCode' = e.otpCode
                    /\ inflight' = e.inflight
            ELSE UNCHANGED <<otp, otpCode, inflight>>
         /\ Quiet
         /\ UNCHANGED <<tab, rows, isSubmitting, posts, route>>

\* The user completes every required field that is still empty.
CompleteRequired ==
    LET v == CompletedValues(tab, values)
        r == CompletedRows(tab, rows)
    IN /\ <<v, r>> # <<values, rows>>
       /\ Explored(tab, v, r)
       /\ values' = v
       /\ rows' = r
       /\ IF v.submittedByEmail # values.submittedByEmail
          THEN LET e == EmailEffect(otp, otpCode, inflight)
               IN /\ otp' = e.otp
                  /\ otpCode' = e.otpCode
                  /\ inflight' = e.inflight
          ELSE UNCHANGED <<otp, otpCode, inflight>>
       /\ Quiet
       /\ UNCHANGED <<tab, isSubmitting, posts, route>>

\* The user edits sub-field k of row i.
UpdateRow ==
    \E dev \in {Deviations(tab, values, rows)} :
       \E i \in 1..Len(rows) : \E k \in DOMAIN DefaultRow(tab) :
         \E s \in RowFieldValues(tab, k) :
           /\ s # rows[i][k]
           /\ \E b \in 1..2 :
                dev[b] - (IF rows[i][k] # RowOf(tab, BaseRows(tab, b), i)[k] THEN 1 ELSE 0)
                       + (IF s # RowOf(tab, BaseRows(tab, b), i)[k] THEN 1 ELSE 0)
                  <= MaxDeviation
           /\ rows' = [rows EXCEPT ![i][k] = s]
           /\ Quiet
           /\ UNCHANGED <<tab, values, isSubmitting, otp, otpCode, inflight, posts,
                          route>>

\* The Add button.
AppendSub ==
    /\ Len(rows) < MaxRows
    /\ rows' = AppendRow(tab, rows)
    /\ Quiet
    /\ UNCHANGED <<tab, values, isSubmitting, otp, otpCode, inflight, posts, route>>

\* The Remove button of row i.
RemoveSub(i) ==
    /\ i \in 1..Len(rows)
    /\ RemoveOffered(rows)
    /\ rows' = RemoveAt(rows, i)
    /\ Quiet
    /\ UNCHANGED <<tab, values, isSubmitting, otp, otpCode, inflight, posts, route>>

\* The user types into the OTP-code input.
SetOtpCode(s) ==
    /\ s # otpCode
    /\ otpCode' = s
    /\ Quiet
    /\ UNCHANGED <<tab, values, rows, isSubmitting, otp, inflight, posts, route>>

\* handleRequestOtp
RequestOtp ==
    /\ ~OtpLoading(otp)
    /\ IF values.submittedByEmail = Empty \/ values.submittedByName = Empty
       THEN /\ toast' = RequestMissingToast(tab)
            /\ UNCHANGED <<otp, inflight>>
       ELSE LET email == Trim(values.submittedByEmail)
                fullName == Trim(values.submittedByName)
            IN IF OtpRequestInvalid(email, fullName)
               THEN /\ toast' = OtpValidationMessage
                    /\ UNCHANGED <<otp, inflight>>
               ELSE /\ InFlightCount < MaxInFlight
                    /\ otp' = OtpSending(otp)
                    /\ inflight' = inflight \cup
                         {[kind |-> "request", email |-> email, code |-> Empty,
                           stale |-> FALSE, id |-> FreshId]}
                    /\ toast' = ""
    /\ errors' = {}
    /\ UNCHANGED <<tab, values, rows, isSubmitting, otpCode, posts, route>>

\* a faulty verify button, enabled in every status (C15 depends on the
\* condition)
VerifyOfferedAlways(o) == TRUE

\* the verify button, as far as handleVerifyOtp does not re-check it:
\* otp.verifying || otp.status !== "sent" disables it
VerifyOffered(o) == ~OtpVerifying(o) /\ o.status = "sent"

\* a faulty handleVerifyOtp, which never stops at its own check (C18 depends
\* on the check)
VerifyMissingNever(code) == FALSE

\* handleVerifyOtp's own check: if (!otpCode)
VerifyMissing(code) == ~Truthy(code)

\* handleVerifyOtp
VerifyOtp ==
    /\ VerifyOffered(otp)
    /\ IF VerifyMissing(otpCode)
       THEN /\ toast' = VerifyMissingToast(tab)
            /\ UNCHANGED <<otp, inflight>>
       ELSE LET email == Trim(values.submittedByEmail)
                code == Trim(otpCode)
            IN IF OtpVerifyInvalid(code)
               THEN /\ toast' = OtpCodeMessage
                    /\ UNCHANGED <<otp, inflight>>
               ELSE /\ InFlightCount < MaxInFlight
                    /\ otp' = OtpVerifyingState(otp)
                    /\ inflight' = inflight \cup
                         {[kind |-> "verify", email |-> email, code |-> code,
                           stale |-> FALSE, id |-> FreshId]}
                    /\ toast' = ""
    /\ errors' = {}
    /\ UNCHANGED <<tab, values, rows, isSubmitting, otpCode, posts, route>>

\* The OTP backend answers the call c: ok or not, with a message or none.
\* The session takes the answer unless a reset() overtook the call; the
\* handler that awaited the call shows its toast either way.
OtpAnswer(c, ok, msg) ==
    /\ c \in inflight
    /\ inflight' = inflight \ {c}
    /\ otp' = IF c.stale THEN otp
              ELSE IF c.kind = "request" THEN OtpRequested(otp, ok, msg)
              ELSE OtpVerified(otp, ok, SessionFor(c.email), msg)
    /\ toast' = IF c.kind = "request"
                THEN IF ok THEN RequestSentToast(tab)
                     ELSE OtpFailureMessage(msg, OtpRequestFallback)
                ELSE IF ok THEN VerifiedToast(tab)
                     ELSE OtpFailureMessage(msg, OtpVerifyFallback)
    /\ errors' = {}
    /\ UNCHANGED <<tab, values, rows, isSubmitting, otpCode, posts, route>>

\* handleSubmit(onSubmit): validation, then the guards of onSubmit, then the
\* POST of the payload to the form's proxy route.
Submit ==
    /\ ~isSubmitting
    /\ LET errs == ValidationErrors(tab, values, rows)
           payload == Payload(tab, values, rows, values.submittedByEmail, otp.sessionId)
       IN IF errs # {}
          THEN /\ errors' = errs
               /\ toast' = ""
               /\ UNCHANGED <<posts, isSubmitting>>
          ELSE IF Unverified(otp)
          THEN /\ errors' = {}
               /\ toast' = VerifyFirstToast
               /\ UNCHANGED <<posts, isSubmitting>>
          ELSE IF SubsGuard(tab) /\ Len(payload.subs) = 0
          THEN /\ errors' = {}
               /\ toast' = SubsToast(tab)
               /\ UNCHANGED <<posts, isSubmitting>>
          ELSE /\ InFlightCount < MaxInFlight
               /\ Quiet
               /\ posts' = posts \cup
                    {[path |-> ProxyPath(tab), body |-> JsonBody(payload)]}
               /\ isSubmitting' = TRUE
    /\ UNCHANGED <<tab, values, rows, otp, otpCode, inflight, route>>

\* a faulty onSubmit, which fetches again when the submission failed (C20
\* depends on the single fetch)
SettledRetried(calls, c, ok) == IF ok THEN calls \ {c} ELSE calls

\* the submissions in flight once the awaited fetch of c has ended: onSubmit
\* fetches once, and its catch only shows the message
Settled(calls, c, ok) == calls \ {c}

\* a faulty onSubmit, whose failure is not caught, with a handleSubmit that
\* then stays submitting (C27 depends on the catch)
SubmittingAfterStuck(ok) == ~ok

\* formState.isSubmitting once onSubmit has returned: onSubmit catches what
\* its try block throws, and handleSubmit then clears the flag
SubmittingAfter(ok) == FALSE

\* The end of the submission c: fetch threw, or the proxy route answered
\* with what it made of the upstream's outcome.
SubmitAnswer(c, thrown, up) ==
    /\ c \in posts
    /\ posts' = Settled(posts, c, ~thrown /\ ResponseOk(ProxyPOST(tab, up).status))
    /\ LET response == ProxyPOST(tab, up)
           succeeded == ~thrown /\ ResponseOk(response.status)
           st == IF succeeded THEN SubmitSucceeded(tab, FormState)
                 ELSE SubmitFailed(tab, FormState)
       IN /\ toast' = IF thrown THEN NetworkErrorMessage
                      ELSE IF succeeded THEN SubmittedToast(tab)
                      ELSE ErrorMessage(tab, response.body)
          /\ values' = st.values
          /\ rows' = st.rows
          /\ errors' = {}
          /\ otp' = st.otp
          /\ otpCode' = st.otpCode
          /\ inflight' = st.inflight
    /\ isSubmitting' = SubmittingAfter(~thrown /\ ResponseOk(ProxyPOST(tab, up).status))
    /\ UNCHANGED <<tab, route>>

\* the fields the workflow reads: the submitter's name and email, and the
\* title for the required fields that only the validation reads
WorkflowFields == {"title", "submittedByName", "submittedByEmail"}

\* The workflow: the section as mounted, the OTP handlers, the submission,
\* and edits of the required fields.
Next ==
    \/ \E t \in Forms : SelectTab(t)
    \/ SetField(WorkflowFields)
    \/ CompleteRequired
    \/ \E s \in CodeValues : SetOtpCode(s)
    \/ RequestOtp
    \/ VerifyOtp
    \/ \E c \in inflight : \E a \in BackendAnswers :
         OtpAnswer(c, a.ok, a.msg)
    \/ Submit
    \/ \E c \in posts : \E e \in SubmitEnds(UpstreamOutcomes) :
         SubmitAnswer(c, e.thrown, e.up)

Spec == Init /\ [][Next]_vars

\* A form with its required fields completed and the email verified: the
\* state after CompleteRequired, RequestOtp, its answer, the code typed,
\* VerifyOtp and its answer.
VerifiedForm(f) ==
    /\ tab = f
    /\ values = BaseValues(f, 2)
    /\ rows = BaseRows(f, 2)
    /\ errors = {}
    /\ isSubmitting = FALSE
    /\ otp = OtpVerified(OtpIdle, TRUE, SessionFor(Trim(BaseValues(f, 2).submittedByEmail)), "")
    /\ otpCode = S("7")
    /\ toast = VerifiedToast(f)
    /\ inflight = {}
    /\ posts = {}
    /\ route = RouteIdle

InitDraft == \E f \in Forms : VerifiedForm(f)

\* The draft: edits of every field and of the subentity list, and the
\* submission.
NextDraft ==
    \/ SetField(DOMAIN values)
    \/ UpdateRow
    \/ AppendSub
    \/ \E i \in 1..MaxRows : RemoveSub(i)
    \/ Submit
    \/ \E c \in posts : \E e \in SubmitEnds(DraftOutcomes) :
         SubmitAnswer(c, e.thrown, e.up)

SpecDraft == InitDraft /\ [][NextDraft]_vars

\* The draft, with every fetch that was issued coming to an end: the
\* awaited fetch resolves with a response or rejects.
SubmissionEnds ==
    \E c \in posts : \E e \in SubmitEnds(DraftOutcomes) :
       SubmitAnswer(c, e.thrown, e.up)

SpecDraftLive == SpecDraft /\ WF_vars(SubmissionEnds)

(***************************************************************************)
(* A proxy route, statement by statement.  The forms above see it through  *)
(* ProxyPOST; here POST handles requests of any body, one at a time (a     *)
(* route keeps nothing between requests).                                  *)
(***************************************************************************)
formVars ==
    <<tab, values, rows, errors, isSubmitting, otp, otpCode, toast, inflight, posts>>

\* POST is called with a request
RoutePOST(f, req) ==
    /\ route.pc \in {"idle", "done"}
    /\ route' = [RouteIdle EXCEPT !.pc = "parsing", !.f = f, !.req = req]
    /\ UNCHANGED formVars

\* const payload = await request.json(); then fetch is called with
\* JSON.stringify(payload)
RouteParse ==
    /\ route.pc = "parsing"
    /\ route' = IF RequestParses(route.req)
                THEN [route EXCEPT !.pc = "fetching",
                                   !.forwarded = Append(@, route.req.payload)]
                ELSE [route EXCEPT !.pc = "caught", !.thrown = "request.json"]
    /\ UNCHANGED formVars

\* await fetch(...): the upstream's response, or a throw when it cannot be
\* reached
RouteFetch(up) ==
    /\ route.pc = "fetching"
    /\ route' = IF up.reached
                THEN [route EXCEPT !.pc = "responding", !.up = up]
                ELSE [route EXCEPT !.pc = "caught", !.thrown = "fetch"]
    /\ UNCHANGED formVars

\* const data = await response.json().catch(() => ({}));
\* return NextResponse.json(data, { status: response.status });
RouteRespond ==
    /\ route.pc = "responding"
    /\ LET data == IF route.up.body.json THEN route.up.body ELSE EmptyObject
       IN route' = IF NullBodyStatus(route.up.status)
                   THEN [route EXCEPT !.pc = "caught", !.thrown = "NextResponse.json"]
                   ELSE [route EXCEPT !.pc = "done",
                                      !.res = [status |-> route.up.status,
                                               body |-> data]]
    /\ UNCHANGED formVars

\* the catch block
RouteCatch ==
    /\ route.pc = "caught"
    /\ route' = [route EXCEPT !.pc = "done", !.res = RouteErrorResponse(route.f)]
    /\ UNCHANGED formVars

NextProxy ==
    \/ \E f \in Routes : \E req \in RequestBodies : RoutePOST(f, req)
    \/ RouteParse
    \/ \E up \in UpstreamOutcomes : RouteFetch(up)
    \/ RouteRespond
    \/ RouteCatch

SpecProxy == Init /\ [][NextProxy]_vars

(***************************************************************************)
(* Properties of the submission guard and of the session.                  *)
(***************************************************************************)
\* the session is not verified, or it holds no session identifier
NotVerifiedSession ==
    otp.status # "verified" \/ otp.sessionId \in {Undefined, Str(Empty)}

\* the step posts nothing and leaves the draft, the session and the code
\* input as they were
NothingSentNothingChanged ==
    /\ posts' = posts
    /\ isSubmitting' = isSubmitting
    /\ UNCHANGED <<values, rows, otp, otpCode, inflight>>

C2_EmailChangeResets ==
    [][(values'.submittedByEmail # values.submittedByEmail)
         => /\ otp'.status = "idle"
            /\ otp'.sessionId = Undefined
            /\ otp'.error = Undefined]_vars

\* the statuses a session can be in
OtpStatuses == {"idle", "sending", "sent", "verifying", "verified", "error"}

\* the email was changed while an OTP call was in flight: the session is
\* back at idle and the call is still awaited
C2_Witness ==
    /\ otp = [status |-> "idle", sessionId |-> Undefined, error |-> Undefined]
    /\ Truthy(values.submittedByEmail)
    /\ \E c \in inflight : c.stale /\ c.email # Trim(values.submittedByEmail)

\* C3: a response that arrives for a call issued before the email was
\* changed does not revive the session: the session becomes sent or verified
\* only by the answer to a call that no reset has overtaken and that was
\* issued for the email the form holds; a verified session is one obtained
\* for that email; and every payload sent carries an otp_session obtained for
\* its submitted_by_email.
C3_NoStaleRevival ==
    /\ [][(otp'.status \in {"sent", "verified"} /\ otp' # otp)
            => \E c \in inflight \ inflight' :
                 ~c.stale /\ c.email = Trim(values.submittedByEmail)]_vars
    /\ [](otp.status = "verified"
            => otp.sessionId = Str(SessionFor(Trim(values.submittedByEmail))))
    /\ [](\A p \in posts :
            /\ "otp_session" \in DOMAIN p.body.fields
            /\ p.body.fields.otp_session
                 = Str(SessionFor(p.body.fields.submitted_by_email.s)))

\* the answer to a request overtaken by a change of the email has arrived:
\* its handler announced the code while the session stays idle
C3_Witness ==
    /\ toast = RequestSentToast(tab)
    /\ otp.status = "idle"
    /\ Truthy(values.submittedByEmail)

\* C4: in every reachable state the session holds a non-empty sessionId
\* exactly when its status is verified.
C4_SessionIdIffVerified ==
    /\ otp.status \in OtpStatuses
    /\ (otp.sessionId.t = "string" /\ otp.sessionId.s # Empty)
         <=> (otp.status = "verified")

\* the backend has accepted the code: the session is verified and holds the
\* sessionId issued for the form's email
C4_Witness ==
    /\ otp.status = "verified"
    /\ otp.sessionId.t = "string"
    /\ otp.sessionId.s # Empty
    /\ otp.sessionId = Str(SessionFor(Trim(values.submittedByEmail)))

(***************************************************************************)
(* Properties of the end of a submission.                                  *)
(***************************************************************************)
\* the step is the end of a submission whose gateway call returned 2xx
GatewaySucceeded ==
    \E c \in posts : \E up \in UpstreamOutcomes :
       /\ ResponseOk(ProxyPOST(tab, up).status)
       /\ SubmitAnswer(c, FALSE, up)

\* the step is the end of a submission whose gateway call returned a status
\* outside 2xx, or threw
GatewayFailed ==
    \E c \in posts : \E e \in SubmitEnds(UpstreamOutcomes) :
       /\ e.thrown \/ ~ResponseOk(ProxyPOST(tab, e.up).status)
       /\ SubmitAnswer(c, e.thrown, e.up)

\* C5: when the gateway call of a submission returns 2xx, the form ends with
\* the draft at its defaults, the subentity list being exactly one default
\* record, the session idle without sessionId, and the code input empty.
C5_SuccessResets ==
    [][GatewaySucceeded
         => /\ values' = DefaultValues(tab)
            /\ Len(rows') = 1
            /\ rows'[1] = DefaultRow(tab)
            /\ otp'.status = "idle"
            /\ otp'.sessionId = Undefined
            /\ otpCode' = Empty
            /\ ~isSubmitting']_vars

\* a submission was accepted: its toast is up over a form back at defaults
C5_Witness ==
    /\ toast = SubmittedToast(tab)
    /\ values = DefaultValues(tab)
    /\ rows = <<DefaultRow(tab)>>
    /\ otp.status = "idle"
    /\ otpCode = Empty
    /\ posts = {}

\* C6: when the gateway call of a submission returns non-2xx or throws, the
\* session (status and sessionId), the code input and the draft are left as
\* they were and the form is back at editing, so that a verified session
\* can be submitted again as it is: the next submit is not held back and
\* would post the same body.
C6_FailureKeeps ==
    [][GatewayFailed
         => /\ UNCHANGED <<values, rows, otp, otpCode>>
            /\ ~isSubmitting'
            /\ toast' # SubmittedToast(tab)
            /\ \A c \in posts \ posts' :
                 (otp.status = "verified"
                    /\ c.body = JsonBody(Payload(tab, values, rows,
                                   values.submittedByEmail, otp.sessionId)))
                   => /\ otp'.status = "verified"
                      /\ c.body = JsonBody(Payload(tab, values', rows',
                                     values'.submittedByEmail, otp'.sessionId))]_vars

\* a submission was rejected with a message: the message is up, the session
\* is still verified, the draft still valid and nothing is in flight
C6_Witness ==
    /\ toast = "Duplicate title"
    /\ otp.status = "verified"
    /\ otp.sessionId.s # Empty
    /\ ValidationErrors(tab, values, rows) = {}
    /\ ~isSubmitting
    /\ posts = {}

(***************************************************************************)
(* Properties of the subentity list.                                       *)
(***************************************************************************)
\* C7: whatever appends, removals and resets by accepted submissions the
\* subentity list of a form goes through, it holds at least one row.
C7_ListNeverEmpty == Len(rows) >= 1

\* the project form after Add and the removal of the first member: the one
\* row left is the default row that was appended
C7_Witness ==
    /\ tab = "project"
    /\ values = BaseValues(tab, 2)
    /\ rows = <<ProjectDefaultMember>>

\* C8: a removal never happens on a list of exactly one row, which stays as
\* it is; on a longer list the removal of row i takes out exactly that row,
\* and the rows before and after it follow in their order with their values
\* unchanged.
C8_RemoveExactlyOne ==
    [][\A i \in 1..MaxRows :
         RemoveSub(i)
           => /\ Len(rows) > 1
              /\ i \in 1..Len(rows)
              /\ rows' = SubSeq(rows, 1, i - 1) \o SubSeq(rows, i + 1, Len(rows))]_vars

\* the project form after Add, an edit of the added member and the removal
\* of the first member: the edited member has moved up
C8_Witness ==
    /\ tab = "project"
    /\ values = BaseValues(tab, 2)
    /\ Len(rows) = 1
    /\ rows[1].fullName = S("b")
    /\ rows[1].rollNumber = Empty

(***************************************************************************)
(* Properties of the payload.                                              *)
(***************************************************************************)
\* the scalar string fields a form does not require
OptionalStrings(f) ==
    (DOMAIN DefaultValues(f)) \ (RequiredFields(f) \cup NumberFields(f))

\* C9: in the payload of every submission that is sent, every scalar string
\* field that the form does not require and that is empty after trimming is
\* absent; this holds in all three forms, abstract and description of the
\* project and research forms included.
C9_OptionalEmptyAbsent ==
    [][Submit
         => \A p \in posts' \ posts : \A k \in OptionalStrings(tab) :
              Trim(values[k]) = Empty => PayloadKey[k] \notin DOMAIN p.body.fields]_vars

\* C10: a numeric field (year, volume and number of the journal form,
\* fundingAmount of the research form) left empty or holding white space
\* only is absent from the payload that is sent, and so is not sent as 0.
C10_EmptyNumberAbsent ==
    [][Submit
         => \A p \in posts' \ posts : \A k \in NumberFields(tab) :
              Trim(values[k]) = Empty => PayloadKey[k] \notin DOMAIN p.body.fields]_vars

\* the text holds something, and a character that is no digit
NonNumeric(s) ==
    /\ Trim(s) # Empty
    /\ \E i \in 1..Len(Trim(s)) :
         Trim(s)[i] \notin {"0", "1", "2", "3", "4", "5", "6", "7", "8", "9"}

\* the submit action passes every local guard: the draft is valid, the
\* session verified, and a subentity keeps its identifying fields where the
\* form asks for one
PassesGuards ==
    /\ ValidationErrors(tab, values, rows) = {}
    /\ ~NotVerifiedSession
    /\ (SubsGuard(tab) =>
          \E i \in 1..Len(rows) :
             IF tab = "journal" THEN Trim(rows[i].givenName) # Empty
             ELSE Trim(rows[i].fullName) # Empty /\ Trim(rows[i].rollNumber) # Empty)

\* C11: a numeric field whose text is not a number does not block the
\* submission and is left out of the payload: the submit action that passes
\* the guards posts a body without the field's key and with the key of every
\* other field that holds a value.
C11_NonNumericOmitted ==
    [][\A k \in NumberFields(tab) :
         (Submit /\ PassesGuards /\ NonNumeric(values[k]))
           => \E p \in posts' \ posts :
                /\ PayloadKey[k] \notin DOMAIN p.body.fields
                /\ \A j \in (DOMAIN values) \ {k} :
                     (Trim(values[j]) # Empty /\ ~NonNumeric(values[j]))
                       => PayloadKey[j] \in DOMAIN p.body.fields]_vars

\* the research form posted with fundingAmount "x": the body in flight has
\* no funding_amount
C11_Witness ==
    /\ tab = "research"
    /\ values.fundingAmount = S("x")
    /\ isSubmitting
    /\ \E p \in posts :
         /\ "funding_amount" \notin DOMAIN p.body.fields
         /\ p.body.fields.title = Str(Trim(values.title))

(***************************************************************************)
(* Properties of the local guards and of the error messages.               *)
(***************************************************************************)
\* after trimming, no row keeps its identifying field (journal: given name;
\* project: full name and roll number; research: full name)
NoSubentityKept ==
    \A i \in 1..Len(rows) :
       CASE tab = "journal" -> Trim(rows[i].givenName) = Empty
         [] tab = "project" ->
              Trim(rows[i].fullName) = Empty \/ Trim(rows[i].rollNumber) = Empty
         [] tab = "research" -> Trim(rows[i].fullName) = Empty

\* the 'at least one <entity>' errors
AtLeastOneToasts ==
    {"Add at least one author", "Add at least one team member",
     "Add at least one participant"}

\* C12: in each of the three forms, a submit action with a verified session
\* and a valid draft in which no subentity keeps its identifying field after
\* trimming issues no network call and ends with an 'at least one <entity>'
\* error.
C12_SubentityGuard ==
    [][(Submit /\ ~NotVerifiedSession /\ ValidationErrors(tab, values, rows) = {}
          /\ NoSubentityKept)
         => (posts' = posts /\ ~isSubmitting' /\ toast' \in AtLeastOneToasts)]_vars

\* the fallback message of each form
FallbackOf ==
    [project |-> "Failed to submit project", research |-> "Failed to submit research",
     journal |-> "Failed to submit article"]

\* C13: when the gateway answers outside 2xx, the message displayed is the
\* body's detail if it has one, else its error if it has one, else the
\* form's fallback, and the draft is not reset; the fallback is also what a
\* body that is no JSON displays.
C13_ErrorMessage ==
    /\ [][\A c \in posts : \A up \in UpstreamOutcomes :
            LET response == ProxyPOST(tab, up) IN
            (SubmitAnswer(c, FALSE, up) /\ ~(response.status \in 200..299))
              => /\ response.body.detail # "" => toast' = response.body.detail
                 /\ (response.body.detail = "" /\ response.body.error # "")
                      => toast' = response.body.error
                 /\ (response.body.detail = "" /\ response.body.error = "")
                      => toast' = FallbackOf[tab]
                 /\ UNCHANGED <<values, rows>>]_vars
    /\ [](\A b \in Bodies : ~b.json => ErrorMessage(tab, b) = FallbackOf[tab])

\* a submission was answered with an error field and no detail: the error
\* is displayed over the draft as it was submitted
C13_Witness ==
    /\ toast = "Invalid payload"
    /\ values # DefaultValues(tab)
    /\ ValidationErrors(tab, values, rows) = {}
    /\ posts = {}

(***************************************************************************)
(* Properties of the network calls.                                        *)
(***************************************************************************)
\* C14: while a requestOtp, verifyOtp or submit call of the form is in
\* flight, its request, verify and submit buttons are disabled, and the form
\* never has two calls in flight at once.
C14_OneCallInFlight ==
    /\ InFlightCount > 0 => (RequestDisabled /\ VerifyDisabled /\ SubmitDisabled)
    /\ InFlightCount <= 1

(***************************************************************************)
(* Properties of the session's transitions.                                *)
(***************************************************************************)
\* the calls the step issues
Issued == {c \in inflight' \ inflight : ~c.stale}

\* C15: a verifyOtp call is issued from status sent only and moves the
\* session to verifying; the answer to a call that no reset has overtaken
\* moves it to verified, storing the sessionId the backend issued for the
\* call's email, on success, and to error on failure; and the session
\* becomes verified by nothing but such a success.
C15_VerifyTransitions ==
    /\ [][\A c \in Issued :
            c.kind = "verify"
              => /\ otp.status = "sent"
                 /\ otp'.status = "verifying"
                 /\ c.email = Trim(values.submittedByEmail)
                 /\ c.code = Trim(otpCode)]_vars
    /\ [][\A c \in inflight : \A a \in BackendAnswers :
            (OtpAnswer(c, a.ok, a.msg) /\ c.kind = "verify" /\ ~c.stale)
              => IF a.ok
                 THEN /\ otp'.status = "verified"
                      /\ otp'.sessionId = Str(<<"sess">> \o c.email)
                      /\ toast' = VerifiedToast(tab)
                 ELSE /\ otp'.status = "error"
                      /\ otp'.sessionId = Undefined
                      /\ toast' \notin {"", VerifiedToast(tab)}]_vars
    /\ [][(otp'.status = "verified" /\ otp.status # "verified")
            => \E c \in inflight :
                 c.kind = "verify" /\ ~c.stale /\ OtpAnswer(c, TRUE, "")]_vars

\* the backend has just accepted the code: the handler's toast is up over a
\* verified session
C15_Witness ==
    /\ otp.status = "verified"
    /\ toast = VerifiedToast(tab)
    /\ otp.sessionId = Str(SessionFor(Trim(values.submittedByEmail)))
    /\ inflight = {}

\* C16: a requestOtp call moves the session to sending (from idle, and from
\* any other status in which it is issued); the answer to a call that no
\* reset has overtaken moves it to sent on success, and on failure to error
\* with the backend's message, or the generic fallback when the backend
\* gave none; and the session holds an error only while its status is error.
C16_RequestTransitions ==
    /\ [][\A c \in Issued :
            c.kind = "request"
              => /\ otp'.status = "sending"
                 /\ otp'.error = Undefined
                 /\ c.email = Trim(values.submittedByEmail)]_vars
    /\ [][\A c \in inflight : \A a \in BackendAnswers :
            (OtpAnswer(c, a.ok, a.msg) /\ c.kind = "request" /\ ~c.stale)
              => IF a.ok
                 THEN /\ otp'.status = "sent"
                      /\ otp'.error = Undefined
                      /\ toast' = RequestSentToast(tab)
                 ELSE /\ otp'.status = "error"
                      /\ otp'.error =
                           Str(<<IF a.msg # "" THEN a.msg
                                 ELSE "Unable to send verification code">>)
                      /\ toast' = otp'.error.s[1]]_vars
    /\ [](otp.error # Undefined => otp.status = "error")

\* a request for a code has failed without a message from the backend: the
\* session is at error with the generic fallback
C16_Witness ==
    /\ otp.status = "error"
    /\ otp.error = Str(<<"Unable to send verification code">>)
    /\ toast = "Unable to send verification code"
    /\ otp.sessionId = Undefined

\* C17: a requestOtp action taken with an email or a full name that is empty
\* after trimming (whitespace-only included) ends in a validation message:
\* it issues no network call and leaves the OTP session as it was.
C17_EmptyRequestLocal ==
    [][(/\ RequestOtp
        /\ \/ Trim(values.submittedByEmail) = Empty
           \/ Trim(values.submittedByName) = Empty)
         => /\ inflight' = inflight
            /\ posts' = posts
            /\ otp' = otp
            /\ toast' \notin {"", RequestSentToast(tab)}
            /\ (values.submittedByEmail = Empty \/ values.submittedByName = Empty)
                 => toast' = RequestMissingToast(tab)]_vars

\* a code was requested with a whitespace-only email or name: the validation
\* message of requestOtp is shown, nothing is in flight, the session is idle
C17_Witness ==
    /\ toast = OtpValidationMessage
    /\ \/ values.submittedByEmail # Empty /\ Trim(values.submittedByEmail) = Empty
       \/ values.submittedByName # Empty /\ Trim(values.submittedByName) = Empty
    /\ inflight = {}
    /\ otp = OtpIdle

\* C18: a verifyOtp action taken with an empty code ends in the form's own
\* validation message: it issues no network call and leaves the OTP session
\* as it was, at sent.
C18_EmptyCodeLocal ==
    [][(VerifyOtp /\ otpCode = Empty)
         => /\ inflight' = inflight
            /\ posts' = posts
            /\ otp' = otp
            /\ otp'.status = "sent"
            /\ toast' = VerifyMissingToast(tab)]_vars

\* the verification was asked for with no code entered, after a code was sent
C18_Witness ==
    /\ toast = VerifyMissingToast(tab)
    /\ otpCode = Empty
    /\ otp.status = "sent"
    /\ inflight = {}

\* the scalar fields every submission must fill
RequiredScalars(f) ==
    {"title", "submittedByName", "submittedByEmail"}
    \cup (CASE f = "journal" -> {"genre", "abstract"}
            [] f = "project" -> {"supervisorName"}
            [] f = "research" -> {"principalInvestigator", "piEmail"})

\* C19: a submit action taken while a required scalar field (title, submitter
\* name and email in every form; genre and abstract for a journal article;
\* supervisor name for a project; principal investigator and PI email for a
\* research) is empty reports an error on each such field and issues no
\* network call.
C19_RequiredBlocks ==
    [][\A k \in RequiredScalars(tab) :
         (Submit /\ values[k] = Empty)
           => /\ <<0, k>> \in errors'
              /\ posts' = posts
              /\ inflight' = inflight
              /\ isSubmitting' = isSubmitting]_vars

\* a research was submitted with the PI email empty and the session
\* verified: the field has its error and nothing was posted
C19_Witness ==
    /\ tab = "research"
    /\ values.piEmail = Empty
    /\ <<0, "piEmail">> \in errors
    /\ ~Unverified(otp)
    /\ posts = {}
    /\ ~isSubmitting

\* the submissions the step posts
Posted == posts' \ posts

\* C20: a requestOtp, verifyOtp or submit action that passes its local
\* guards issues exactly one network call, of its own kind; the end of a
\* call, failed or not, takes that call out of flight and issues none; and
\* every step that issues a call is one of the three user actions.
C20_OneCallPerAction ==
    /\ [][(/\ RequestOtp
           /\ Trim(values.submittedByEmail) # Empty
           /\ Trim(values.submittedByName) # Empty)
            => /\ Cardinality(Issued) = 1
               /\ \A c \in Issued : c.kind = "request"
               /\ Posted = {}]_vars
    /\ [][(VerifyOtp /\ Trim(otpCode) # Empty)
            => /\ Cardinality(Issued) = 1
               /\ \A c \in Issued : c.kind = "verify"
               /\ Posted = {}]_vars
    /\ [][(Submit /\ PassesGuards)
            => /\ Cardinality(Posted) = 1
               /\ \A c \in Posted : c.path = ProxyPath(tab)
               /\ Issued = {}]_vars
    /\ [][\A c \in inflight : \A a \in BackendAnswers :
            OtpAnswer(c, a.ok, a.msg)
              => /\ inflight' = inflight \ {c}
                 /\ Posted = {}]_vars
    /\ [][\A c \in posts : \A e \in SubmitEnds(UpstreamOutcomes) :
            SubmitAnswer(c, e.thrown, e.up)
              => /\ posts' = posts \ {c}
                 /\ Issued = {}]_vars
    /\ [][(Issued # {} \/ Posted # {})
            => (RequestOtp \/ VerifyOtp \/ Submit)]_vars

\* a submission has failed: its message is shown, and neither it nor any
\* other call is in flight
C20_Witness ==
    /\ toast = SubmitFallback(tab)
    /\ posts = {}
    /\ inflight = {}
    /\ ~isSubmitting
    /\ otp.status = "verified"

\* C21: for every upstream response, POST answers with the upstream's status
\* and its JSON body, and with the upstream's status and {} when the
\* upstream's body is not JSON.
C21_RelaysUpstream ==
    (route.pc = "done" /\ route.up.reached)
      => route.res = [status |-> route.up.status,
                      body |-> IF route.up.body.json THEN route.up.body
                               ELSE EmptyObject]

\* the request being handled has met a failure: its body is not JSON, the
\* upstream could not be reached, or the response could not be constructed
RouteFailed ==
    \/ ~route.req.json
    \/ route.thrown = "fetch"
    \/ route.up.reached /\ route.up.status \in {204, 205, 304}

\* C22: a request that meets a failure inside a route (its body cannot be
\* parsed, the upstream fetch throws, the response cannot be constructed) is
\* answered with status 500 and the route's error body; every request that
\* POST has finished has an answer; and a request whose body cannot be
\* parsed is never forwarded to the upstream.
C22_FailuresCaught ==
    /\ (route.pc = "done" /\ RouteFailed)
         => /\ route.res.status = 500
            /\ route.res.body =
                 [json |-> TRUE, detail |-> "",
                  error |-> IF route.f = "journal"
                            THEN "Unable to submit journal article"
                            ELSE "Unable to submit research"]
    /\ route.pc = "done" => route.res # NoResponse
    /\ (route.pc # "idle" /\ ~route.req.json) => route.forwarded = <<>>
    /\ Len(route.forwarded) <= 1

\* a request whose body is not JSON has been answered by the journal route
\* with its error, and nothing was forwarded
C22_Witness ==
    /\ route.pc = "done"
    /\ route.f = "journal"
    /\ ~route.req.json
    /\ route.thrown = "request.json"
    /\ route.res.status = 500
    /\ route.res.body.error = "Unable to submit journal article"
    /\ route.forwarded = <<>>

\* C23: an edit of the draft that leaves the submitter email as it is (of
\* the submitter name, of any other scalar field, of a row, the append or
\* the removal of a row; not the reset that ends a submission) leaves the
\* OTP session (status, sessionId, error) and the OTP-code input unchanged.
C23_OtherEditsKeepSession ==
    [][(/\ tab' = tab
        /\ posts' = posts
        /\ values'.submittedByEmail = values.submittedByEmail
        /\ values' # values \/ rows' # rows)
         => /\ otp'.status = otp.status
            /\ otp'.sessionId = otp.sessionId
            /\ otp'.error = otp.error
            /\ otpCode' = otpCode]_vars

\* a row was appended and the submitter name edited on a verified form: the
\* session is still verified and the code still entered
C23_Witness ==
    /\ Len(rows) = 2
    /\ values.submittedByName # BaseValues(tab, 2).submittedByName
    /\ values.submittedByEmail = BaseValues(tab, 2).submittedByEmail
    /\ otp.status = "verified"
    /\ otp.sessionId # Undefined
    /\ otpCode = S("7")
    /\ toast = ""

C25_SessionAndDepartment ==
    /\ [][\A c \in Posted :
            /\ "otp_session" \in DOMAIN c.body.fields
            /\ c.body.fields.otp_session = otp.sessionId
            /\ c.body.fields.otp_session =
                 Str(<<"sess">> \o c.body.fields.submitted_by_email.s)
            /\ "department" \in DOMAIN c.body.fields
            /\ c.body.fields.department = Str(DepartmentUuid)]_vars
    /\ [][(otp'.sessionId # otp.sessionId /\ otp'.sessionId # Undefined)
            => \E c \in inflight :
                 /\ c.kind = "verify" /\ ~c.stale
                 /\ OtpAnswer(c, TRUE, "")
                 /\ otp'.sessionId = Str(<<"sess">> \o c.email)]_vars

\* a submission is in flight whose payload carries the session obtained for
\* its email, an email other than the one of the completed draft
C25_Witness ==
    \E c \in posts :
       /\ c.body.fields.otp_session = otp.sessionId
       /\ otp.sessionId = Str(<<"sess">> \o Trim(values.submittedByEmail))
       /\ Trim(values.submittedByEmail) # BaseValues(tab, 2).submittedByEmail
       /\ c.body.fields.department = Str(DepartmentUuid)

\* the optional sub-fields of a row, and the key each is sent under
OptionalSubKeys ==
    [familyName |-> "family_name", email |-> "email",
     affiliation |-> "affiliation", country |-> "country", role |-> "role"]

\* C26: in every subentity record of a payload that is sent, an optional
\* sub-field (family name, email, affiliation, country of an author; email
\* and role of a member or a participant) that is empty after trimming has
\* no key; one that is not empty is sent trimmed.  A draft whose only author
\* has nothing but a given name is sent with exactly {given_name}.
C26_OptionalSubfieldsAbsent ==
    [][\A c \in Posted :
         /\ \A i \in 1..Len(c.body.subs) :
              \A k \in {"family_name", "email", "affiliation", "country", "role"} :
                 k \in DOMAIN c.body.subs[i]
                   => /\ c.body.subs[i][k].s # Empty
                      /\ Trim(c.body.subs[i][k].s) = c.body.subs[i][k].s
         /\ Len(rows) = 1
              => /\ Len(c.body.subs) <= 1
                 /\ \A i \in 1..Len(c.body.subs) :
                      \A x \in DOMAIN OptionalSubKeys \cap DOMAIN rows[1] :
                         IF Trim(rows[1][x]) = Empty
                         THEN OptionalSubKeys[x] \notin DOMAIN c.body.subs[i]
                         ELSE c.body.subs[i][OptionalSubKeys[x]] = Str(Trim(rows[1][x]))]_vars

\* a journal article is being submitted whose only author is sent as exactly
\* {given_name}
C26_Witness ==
    /\ tab = "journal"
    /\ \E c \in posts :
         /\ Len(c.body.subs) = 1
         /\ DOMAIN c.body.subs[1] = {"given_name"}
         /\ c.body.subs[1].given_name.s # Empty

\* C27: a form that is submitting eventually is not: the end of its call,
\* with a 2xx response, with another response or with a throw, clears
\* isSubmitting; and a form that is not submitting can be submitted again.
C27_SubmittingEnds ==
    /\ isSubmitting ~> ~isSubmitting
    /\ [][\A c \in posts : \A e \in SubmitEnds(DraftOutcomes) :
            SubmitAnswer(c, e.thrown, e.up) => ~isSubmitting']_vars
    /\ [](~isSubmitting => ENABLED Submit)

\* a submission was rejected by the upstream: the form shows the message,
\* is not submitting, and holds the draft
C27_Witness ==
    /\ toast = "Duplicate title"
    /\ ~isSubmitting
    /\ posts = {}
    /\ values # DefaultValues(tab)

\* row i of the draft has its identifying field(s) after trimming
Identified(i) ==
    CASE tab = "journal" -> Trim(rows[i].givenName) # Empty
      [] tab = "project" ->
           Trim(rows[i].fullName) # Empty /\ Trim(rows[i].rollNumber) # Empty
      [] tab = "research" -> Trim(rows[i].fullName) # Empty

\* the j-th of the identified rows, in the order of the draft
NthIdentified(j) ==
    CHOOSE i \in 1..Len(rows) :
       /\ Identified(i)
       /\ Cardinality({x \in 1..(i - 1) : Identified(x)}) = j - 1

\* C28: in every payload that is sent, the subentity records are the rows of
\* the draft that have their identifying field(s) non-empty after trimming
\* (given name of an author; full name and roll number of a member; full
\* name of a participant), in the order of the draft; the other rows are
\* dropped.
C28_IdentifiedRowsInOrder ==
    [][\A c \in Posted :
         /\ Len(c.body.subs) = Cardinality({i \in 1..Len(rows) : Identified(i)})
         /\ \A j \in 1..Len(c.body.subs) :
              LET sub == c.body.subs[j]
                  row == rows[NthIdentified(j)]
              IN /\ IF tab = "journal"
                    THEN sub.given_name = Str(Trim(row.givenName))
                    ELSE sub.full_name = Str(Trim(row.fullName))
                 /\ tab = "project" => sub.roll_number = Str(Trim(row.rollNumber))
                 /\ tab = "journal" => sub.given_name.s # Empty
                 /\ tab # "journal" => sub.full_name.s # Empty
                 /\ tab = "project" => sub.roll_number.s # Empty
                 /\ ("email" \in DOMAIN sub) = (Trim(row.email) # Empty)]_vars

\* a payload is in flight that kept the first and the third row of the
\* draft, which differ, and dropped the second
C28_Witness ==
    /\ Len(rows) = 3
    /\ Identified(1) /\ ~Identified(2) /\ Identified(3)
    /\ rows[1] # rows[3]
    /\ \E c \in posts : Len(c.body.subs) = 2 /\ c.body.subs[1] # c.body.subs[2]

\* C29: a session serves one successful submission.  The end of a
\* submission with a 2xx response leaves the session idle without a
\* sessionId and with no call pending that could still change it; a
\* submission is posted only from a verified session; a session becomes
\* verified only by the successful answer to a verifyOtp call, and sent only
\* by the successful answer to a requestOtp call.  So nothing is posted after
\* a success until a new requestOtp and a new verifyOtp have succeeded.
C29_SessionUsedOnce ==
    /\ [][\A c \in posts : \A e \in SubmitEnds(UpstreamOutcomes) :
            (/\ SubmitAnswer(c, e.thrown, e.up)
             /\ posts' # posts
             /\ toast' = SubmittedToast(tab))
              => /\ otp'.status = "idle"
                 /\ otp'.sessionId = Undefined
                 /\ \A x \in inflight' : x.stale]_vars
    /\ [](otp.status = "idle" => \A x \in inflight : x.stale)
    /\ [][Posted # {} => (otp.status = "verified" /\ otp.sessionId # Undefined)]_vars
    /\ [][(otp'.status = "verified" /\ otp.status # "verified")
            => \E c \in inflight :
                 c.kind = "verify" /\ ~c.stale /\ OtpAnswer(c, TRUE, "")]_vars
    /\ [][(otp'.status = "sent" /\ otp.status # "sent")
            => \E c \in inflight :
                 c.kind = "request" /\ ~c.stale /\ OtpAnswer(c, TRUE, "")]_vars

\* a submission has been accepted: the form says so, the session is idle and
\* nothing is in flight
C29_Witness ==
    /\ toast = SubmittedToast(tab)
    /\ otp.status = "idle"
    /\ otp.sessionId = Undefined
    /\ posts = {}
    /\ ~isSubmitting

\* C30: in every payload that is sent, each required scalar field (title,
\* submitted_by_name, submitted_by_email and the form's other required
\* fields) is a string that is not empty after trimming.
C30_RequiredNonEmptySent ==
    [][\A c \in Posted : \A k \in RequiredScalars(tab) :
         /\ PayloadKey[k] \in DOMAIN c.body.fields
         /\ Trim(c.body.fields[PayloadKey[k]].s) # Empty]_vars

\* name and email are filled in, and the exploration has room for a call
CanCall ==
    /\ Trim(values.submittedByEmail) # Empty
    /\ Trim(values.submittedByName) # Empty
    /\ InFlightCount < MaxInFlight

\* C31: while the session is not at sent, in particular after a failed
\* requestOtp or verifyOtp (error), the verify button is disabled, and the
\* session comes to sent only by the successful answer to a requestOtp call.
\* From error a verified session can still be had, step by step: the request
\* button is enabled and requestOtp issues a call; a pending call can be
\* answered with success; at sent a code can be entered and verifyOtp issues
\* a call; and none of these steps changes the email or the draft.
C31_RecoverFromError ==
    /\ [](otp.status # "sent" => VerifyDisabled)
    /\ [][(otp.status # "sent" /\ otp'.status = "sent")
            => \E c \in inflight :
                 c.kind = "request" /\ ~c.stale /\ OtpAnswer(c, TRUE, "")]_vars
    /\ []((otp.status = "error" /\ CanCall)
            => /\ ~RequestDisabled
               /\ ENABLED (RequestOtp /\ otp'.status = "sending"
                              /\ \E c \in Issued : c.kind = "request"))
    /\ [](\A c \in inflight :
            ~c.stale
              => ENABLED (OtpAnswer(c, TRUE, "")
                            /\ otp'.status = IF c.kind = "request" THEN "sent"
                                             ELSE "verified"))
    /\ []((otp.status = "sent" /\ CanCall)
            => /\ ENABLED (SetOtpCode(S("7")) \/ otpCode = S("7"))
               /\ otpCode = S("7")
                    => /\ ~VerifyDisabled
                       /\ ENABLED (VerifyOtp /\ otp'.status = "verifying"
                                      /\ \E c \in Issued : c.kind = "verify"))
    /\ [][(\/ RequestOtp
           \/ VerifyOtp
           \/ \E s \in CodeValues : SetOtpCode(s)
           \/ \E c \in inflight : \E a \in BackendAnswers : OtpAnswer(c, a.ok, a.msg))
            => (values' = values /\ rows' = rows)]_vars

\* a verification has failed on a form whose code input is filled: the
\* verify button is disabled, the request button is not, the draft is kept
C31_Witness ==
    /\ otp.status = "error"
    /\ toast = "Unable to verify the code"
    /\ otpCode # Empty
    /\ VerifyDisabled
    /\ ~RequestDisabled
    /\ values.title # Empty

\* C32: when the journal or the research route fails internally (the
\* upstream cannot be reached), the form that posted shows the route's error
\* text, 'Unable to submit journal article' or 'Unable to submit research',
\* not its own fallback, and keeps the draft, the session and the code
\* input.
C32_ProxyErrorShown ==
    [][\A c \in posts : \A e \in SubmitEnds(UpstreamOutcomes) :
         (/\ SubmitAnswer(c, e.thrown, e.up)
          /\ ~e.thrown
          /\ ~e.up.reached
          /\ tab \in Routes)
           => /\ toast' = IF tab = "journal" THEN "Unable to submit journal article"
                          ELSE "Unable to submit research"
              /\ toast' # SubmitFallback(tab)
              /\ values' = values
              /\ rows' = rows
              /\ otp' = otp
              /\ otpCode' = otpCode
              /\ ~isSubmitting']_vars

\* the research route could not reach the upstream: the form shows the
\* route's text over a draft and a session that are kept
C32_Witness ==
    /\ tab = "research"
    /\ toast = "Unable to submit research"
    /\ otp.status = "verified"
    /\ otp.sessionId # Undefined
    /\ values # DefaultValues(tab)
    /\ posts = {}

====
